---- MODULE Spec2Model ----
(***************************************************************************)
(* Jataayu backend: the user, event, event-registration, initiative and    *)
(* notification routes, the notification service and the socket handlers,  *)
(* as a state machine over the document store, the object storage and the  *)
(* process memory.  One action per route handler or event handler; a       *)
(* handler's persistence and storage failures are inputs of the action.    *)
(***************************************************************************)
EXTENDS Integers, Sequences, FiniteSets, TLC

\* ------------------------------------------------------------------ bounds
MaxUsers == 2
MaxEvents == 1
MaxRegs == 1
MaxNotifs == 3
MaxShareIds == 2
MaxSharedLen == 2
MaxPage == 2
MaxLimit == 2
MaxFiles == 1
MaxUploads == 2
MaxInitiatives == 2
MaxClock == 3

\* ObjectIds are integers; each collection draws from its own range.
UserIds == 1..MaxUsers
EventIds == {100 + i : i \in 1..MaxEvents}
RegIds == {200 + i : i \in 1..MaxRegs}
NotifIds == {300 + i : i \in 1..MaxNotifs}
AssetIds == {400 + i : i \in 1..MaxUploads}
InitiativeIds == {500 + i : i \in 1..MaxInitiatives}

VARIABLES
  users,          \* User collection: _id -> [role, district, officialRole]
  userCount,      \* number of User _ids generated so far (an _id is never reused)
  events,         \* Event collection: _id -> [title, district, createdBy, images, reports]
  eventCount,     \* number of Event _ids generated so far
  cloudinary,     \* object storage: [assets: the public ids held, uploaded: ids issued]
  registrations,  \* EventRegistration collection: _id -> [event, name, status, sharedWith]
  notifications,  \* Notification collection in insertion order
  resp,           \* the last request and the answer it got
  initiatives,    \* Initiative collection: _id -> [title, createdBy, createdAt, updatedAt]
  initiativeCount,\* number of Initiative _ids generated so far
  clock,          \* Date.now()
  io,             \* socket server: [connected: the socket ids connected, opened: ids issued]
  connectedUsers, \* the connectedUsers Map, its entries [userId, socketId] in insertion order
  inflight        \* the requests that wait for the store, by handler slot

vars == <<users, userCount, events, eventCount, cloudinary, registrations, notifications, resp,
          initiatives, initiativeCount, clock, io, connectedUsers, inflight>>

\* The state the user, event, registration and notification routes, handled
\* one request at a time, never touch.
restVars == <<initiatives, initiativeCount, clock, io, connectedUsers, inflight>>

\* ----------------------------------------------------------------- helpers
Range(s) == {s[i] : i \in 1..Len(s)}

NoDuplicates(s) == \A i, j \in 1..Len(s) : i # j => s[i] # s[j]

SeqsUpTo(S, n) == UNION {[1..k -> S] : k \in 0..n}

Response(op, req, status, body) ==
  [op |-> op, req |-> req, status |-> status, body |-> body]

\* ------------------------------------------------------------ access gate
\* auth: the bearer credential resolves to a stored User.
Auth(u) == u \in DOMAIN users

\* checkRole(roles): the resolved user's role is one of roles.
CheckRole(u, roles) == users[u].role \in roles

\* ------------------------------------------------------------ users routes
NoBody == "none"

\* A field that is absent from a request body, or a path of a document that
\* holds no value.
Undefined == "undefined"

\* The conditions of the User schema on save: district is required when
\* role is block_officer, officialRole when role is Official_member.
UserSchemaValid(user) ==
  /\ user.role = "block_officer" => user.district \notin {Undefined, ""}
  /\ user.role = "Official_member" => user.officialRole \notin {Undefined, ""}

\* POST /auth/create-official: officialRole must not be empty; the role is
\* forced to Official_member.  (name, email and password are taken as
\* well-formed, the email as not yet in use.)
CreateOfficialHandler(by, officialRole) ==
  LET id == userCount + 1
      req == [by |-> by, officialRole |-> officialRole]
  IN
  IF officialRole \in {Undefined, ""}
    THEN [users |-> users, userCount |-> userCount,
          resp |-> Response("createOfficial", req, 400, "Official role/designation is required")]
  ELSE [users |-> users @@ (id :> [role |-> "Official_member", district |-> Undefined,
                                   officialRole |-> officialRole]),
        userCount |-> id,
        resp |-> Response("createOfficial", req, 201, id)]

CreateOfficial(by, officialRole) ==
  /\ Auth(by) /\ CheckRole(by, {"admin"})
  /\ userCount < MaxUsers
  /\ LET r == CreateOfficialHandler(by, officialRole) IN
       /\ users' = r.users
       /\ userCount' = r.userCount
       /\ resp' = r.resp
  /\ UNCHANGED <<restVars, events, eventCount, cloudinary, registrations, notifications>>

\* An id in a request path is a string of 24 hex digits: hex is the ObjectId
\* the digits denote, upper tells whether its letters a-f are written in
\* upper case.  ObjectId.toString() writes lower case; casting a string to an
\* ObjectId (findById) reads the digits in either case.
ToHexString(objectId) == [hex |-> objectId, upper |-> FALSE]

ObjectIdOf(param) == param.hex

IdParams == [hex : UserIds, upper : BOOLEAN]

\* user.district = role === 'block_officer' ? district : undefined
RoleChangeDistrictKept(user, role, district) ==
  IF role = "block_officer" THEN district ELSE user.district

RoleChangeDistrict(user, role, district) ==
  IF role = "block_officer" THEN district ELSE Undefined

\* PUT /users/:id/role: the validators admit the roles admin, block_officer
\* and public, and ask for a district with block_officer; officialRole is
\* kept for Official_member only, a role the validators never admit.
UpdateRoleHandler(by, id, role, district) ==
  LET req == [by |-> by, id |-> id, role |-> role, district |-> district] IN
  IF role \notin {"admin", "block_officer", "public"}
    THEN [users |-> users, resp |-> Response("updateRole", req, 400, "Invalid role")]
  ELSE IF role = "block_officer" /\ district \in {Undefined, ""}
    THEN [users |-> users,
          resp |-> Response("updateRole", req, 400, "District is required for block officers")]
  ELSE IF ObjectIdOf(id) \notin DOMAIN users
    THEN [users |-> users, resp |-> Response("updateRole", req, 404, "User not found")]
  ELSE LET user == users[ObjectIdOf(id)]
           saved == [role |-> role,
                     district |-> RoleChangeDistrict(user, role, district),
                     officialRole |-> IF role = "Official_member"
                                        THEN user.officialRole ELSE Undefined]
       IN [users |-> [users EXCEPT ![ObjectIdOf(id)] = saved],
           resp |-> Response("updateRole", req, 200, ObjectIdOf(id))]

UpdateRole(by, id, role, district) ==
  /\ Auth(by) /\ CheckRole(by, {"admin"})
  /\ LET r == UpdateRoleHandler(by, id, role, district) IN
       /\ users' = r.users
       /\ resp' = r.resp
  /\ UNCHANGED <<restVars, userCount, events, eventCount, cloudinary, registrations, notifications>>

\* DELETE /users/:id: req.params.id === req.user._id.toString() compares the
\* path string with the lower-case form of the requester's id.
DeleteUserHandler(by, id) ==
  IF id = ToHexString(by)
    THEN [users |-> users, resp |-> Response("deleteUser", [by |-> by, id |-> id], 403, NoBody)]
  ELSE IF ObjectIdOf(id) \notin DOMAIN users
    THEN [users |-> users, resp |-> Response("deleteUser", [by |-> by, id |-> id], 404, NoBody)]
  ELSE [users |-> [u \in DOMAIN users \ {ObjectIdOf(id)} |-> users[u]],
        resp |-> Response("deleteUser", [by |-> by, id |-> id], 200, NoBody)]

DeleteUser(by, id) ==
  /\ Auth(by) /\ CheckRole(by, {"admin"})
  /\ LET r == DeleteUserHandler(by, id) IN
       /\ users' = r.users
       /\ resp' = r.resp
  /\ UNCHANGED <<restVars, userCount, events, eventCount, cloudinary, registrations, notifications>>

\* PUT /auth/officials/:id: officialRole is optional but, when sent, must not
\* be empty; it is assigned only when truthy.
AuthUpdateOfficialHandler(by, id, officialRole) ==
  LET req == [by |-> by, id |-> id, officialRole |-> officialRole] IN
  IF officialRole = ""
    THEN [users |-> users,
          resp |-> Response("authUpdateOfficial", req, 400,
                            "Official role/designation is required")]
  ELSE IF \/ ObjectIdOf(id) \notin DOMAIN users
          \/ users[ObjectIdOf(id)].role # "Official_member"
    THEN [users |-> users,
          resp |-> Response("authUpdateOfficial", req, 404, "Official member not found")]
  ELSE LET user == users[ObjectIdOf(id)]
           saved == IF officialRole # Undefined
                      THEN [user EXCEPT !.officialRole = officialRole] ELSE user
       IN [users |-> [users EXCEPT ![ObjectIdOf(id)] = saved],
           resp |-> Response("authUpdateOfficial", req, 200, ObjectIdOf(id))]

AuthUpdateOfficial(by, id, officialRole) ==
  /\ Auth(by) /\ CheckRole(by, {"admin"})
  /\ LET r == AuthUpdateOfficialHandler(by, id, officialRole) IN
       /\ users' = r.users
       /\ resp' = r.resp
  /\ UNCHANGED <<restVars, userCount, events, eventCount, cloudinary, registrations, notifications>>

\* PUT /users/officials/:id: officialRole is assigned as sent, with no
\* validator in front; official.save() rejects a document the schema does
\* not admit, which the catch answers 500.
UsersUpdateOfficialHandler(by, id, officialRole) ==
  LET req == [by |-> by, id |-> id, officialRole |-> officialRole] IN
  IF \/ ObjectIdOf(id) \notin DOMAIN users
     \/ users[ObjectIdOf(id)].role # "Official_member"
    THEN [users |-> users,
          resp |-> Response("usersUpdateOfficial", req, 404, "Official not found")]
  ELSE LET official == [users[ObjectIdOf(id)] EXCEPT !.officialRole = officialRole] IN
       IF ~UserSchemaValid(official)
         THEN [users |-> users,
               resp |-> Response("usersUpdateOfficial", req, 500, "Server error")]
         ELSE [users |-> [users EXCEPT ![ObjectIdOf(id)] = official],
               resp |-> Response("usersUpdateOfficial", req, 200, ObjectIdOf(id))]

UsersUpdateOfficial(by, id, officialRole) ==
  /\ Auth(by) /\ CheckRole(by, {"admin"})
  /\ LET r == UsersUpdateOfficialHandler(by, id, officialRole) IN
       /\ users' = r.users
       /\ resp' = r.resp
  /\ UNCHANGED <<restVars, userCount, events, eventCount, cloudinary, registrations, notifications>>

\* DELETE /users/officials/:id
DeleteOfficialHandler(by, id) ==
  LET req == [by |-> by, id |-> id] IN
  IF \/ ObjectIdOf(id) \notin DOMAIN users
     \/ users[ObjectIdOf(id)].role # "Official_member"
    THEN [users |-> users, resp |-> Response("deleteOfficial", req, 404, "Official not found")]
  ELSE IF id = ToHexString(by)
    THEN [users |-> users,
          resp |-> Response("deleteOfficial", req, 403, "Cannot delete your own account")]
  ELSE [users |-> [u \in DOMAIN users \ {ObjectIdOf(id)} |-> users[u]],
        resp |-> Response("deleteOfficial", req, 200, "Official deleted successfully")]

DeleteOfficial(by, id) ==
  /\ Auth(by) /\ CheckRole(by, {"admin"})
  /\ LET r == DeleteOfficialHandler(by, id) IN
       /\ users' = r.users
       /\ resp' = r.resp
  /\ UNCHANGED <<restVars, userCount, events, eventCount, cloudinary, registrations, notifications>>

\* ---------------------------------------------------- notification service
\* new Notification({recipient, title, message, type, link}): the schema
\* defaults read to false and createdAt to the time of construction; _id is
\* generated.  n is the number of documents created before this one.
NewNotification(n, recipient, title, message, type, link) ==
  [_id |-> 300 + n + 1, recipient |-> recipient, title |-> title,
   message |-> message, type |-> type, link |-> link,
   read |-> FALSE, createdAt |-> n + 1]

\* NotificationService.createNotification: save the document, or rethrow the
\* persistence error (ok = FALSE) leaving the collection as it was.
CreateNotification(coll, recipient, title, message, type, link, ok) ==
  IF ok
    THEN Append(coll, NewNotification(Len(coll), recipient, title, message, type, link))
    ELSE coll

\* Notification.find(filter) for the filter {recipient: userId}.
FindByRecipient(coll, userId) ==
  {coll[i] : i \in {j \in 1..Len(coll) : coll[j].recipient = userId}}

\* .sort({createdAt: -1}): the documents of a set, newest first.
RECURSIVE SortCreatedAtDesc(_)
SortCreatedAtDesc(docs) ==
  IF docs = {} THEN <<>>
  ELSE LET newest == CHOOSE d \in docs : \A e \in docs : e.createdAt <= d.createdAt
       IN <<newest>> \o SortCreatedAtDesc(docs \ {newest})

\* .skip(n) and .limit(n) of a query cursor.
Skip(s, n) == IF n >= Len(s) THEN <<>> ELSE SubSeq(s, n + 1, Len(s))

Limit(s, n) == IF n >= Len(s) THEN s ELSE SubSeq(s, 1, n)

\* Math.ceil(total / limit) for a positive limit.
CeilDiv(total, limit) ==
  IF total % limit = 0 THEN total \div limit ELSE (total \div limit) + 1

\* NotificationService.getUserNotifications
GetUserNotificationsZeroBased(coll, userId, page, limit) ==
  LET found == Limit(Skip(SortCreatedAtDesc(FindByRecipient(coll, userId)),
                          page * limit), limit)
      total == Cardinality(FindByRecipient(coll, userId))
  IN [notifications |-> found,
      totalPages |-> CeilDiv(total, limit),
      currentPage |-> page]

GetUserNotifications(coll, userId, page, limit) ==
  LET found == Limit(Skip(SortCreatedAtDesc(FindByRecipient(coll, userId)),
                          (page - 1) * limit), limit)
      total == Cardinality(FindByRecipient(coll, userId))
  IN [notifications |-> found,
      totalPages |-> CeilDiv(total, limit),
      currentPage |-> page]

\* Notification.findOne({_id, recipient}): the positions that match.
FindOneById(coll, notificationId, userId) ==
  {i \in 1..Len(coll) : coll[i]._id = notificationId}

FindOne(coll, notificationId, userId) ==
  {i \in 1..Len(coll) : coll[i]._id = notificationId /\ coll[i].recipient = userId}

\* NotificationService.markAsRead: [error, coll, doc]; error is the message of
\* the Error thrown, or "" when the call returns the saved document.
MarkAsReadToggling(coll, notificationId, userId) ==
  LET hit == FindOne(coll, notificationId, userId) IN
  IF hit = {}
    THEN [error |-> "Notification not found", coll |-> coll, doc |-> NoBody]
    ELSE LET i == CHOOSE j \in hit : TRUE
             saved == [coll[i] EXCEPT !.read = ~coll[i].read]
         IN [error |-> "", coll |-> [coll EXCEPT ![i] = saved], doc |-> saved]

MarkAsRead(coll, notificationId, userId) ==
  LET hit == FindOne(coll, notificationId, userId) IN
  IF hit = {}
    THEN [error |-> "Notification not found", coll |-> coll, doc |-> NoBody]
    ELSE LET i == CHOOSE j \in hit : TRUE
             saved == [coll[i] EXCEPT !.read = TRUE]
         IN [error |-> "", coll |-> [coll EXCEPT ![i] = saved], doc |-> saved]

\* NotificationService.markAllAsRead:
\* updateMany({recipient: userId, read: false}, {read: true})
MarkAllAsReadOfEveryone(coll, userId) ==
  [i \in 1..Len(coll) |-> [coll[i] EXCEPT !.read = TRUE]]

MarkAllAsRead(coll, userId) ==
  [i \in 1..Len(coll) |->
     IF coll[i].recipient = userId /\ coll[i].read = FALSE
       THEN [coll[i] EXCEPT !.read = TRUE]
       ELSE coll[i]]

\* NotificationService.getUnreadCount
GetUnreadCount(coll, userId) ==
  Cardinality({i \in 1..Len(coll) : coll[i].recipient = userId /\ coll[i].read = FALSE})

\* ----------------------------------------------------- notifications routes
\* GET /notifications?page&limit
GetNotificationsRoute(u, page, limit) ==
  /\ Auth(u)
  /\ resp' = Response("getUserNotifications", [user |-> u, page |-> page, limit |-> limit],
                      200, GetUserNotifications(notifications, u, page, limit))
  /\ UNCHANGED <<restVars, users, userCount, events, eventCount, cloudinary, registrations, notifications>>

\* GET /notifications/unread-count
UnreadCountRoute(u) ==
  /\ Auth(u)
  /\ resp' = Response("getUnreadCount", [user |-> u], 200,
                      GetUnreadCount(notifications, u))
  /\ UNCHANGED <<restVars, users, userCount, events, eventCount, cloudinary, registrations, notifications>>

\* PUT /notifications/:id/read: any error of the service is answered 500.
MarkAsReadRoute(u, id) ==
  /\ Auth(u)
  /\ LET r == MarkAsRead(notifications, id, u) IN
       /\ notifications' = r.coll
       /\ resp' = IF r.error = ""
                    THEN Response("markAsRead", [user |-> u, id |-> id], 200, r.doc)
                    ELSE Response("markAsRead", [user |-> u, id |-> id], 500,
                                  "Error marking notification as read")
  /\ UNCHANGED <<restVars, users, userCount, events, eventCount, cloudinary, registrations>>

\* PUT /notifications/mark-all-read
MarkAllReadRoute(u) ==
  /\ Auth(u)
  /\ notifications' = MarkAllAsRead(notifications, u)
  /\ resp' = Response("markAllAsRead",
                      [user |-> u, unreadBefore |-> GetUnreadCount(notifications, u)],
                      200, NoBody)
  /\ UNCHANGED <<restVars, users, userCount, events, eventCount, cloudinary, registrations>>

\* ------------------------------------------------------------ events routes
\* The paths of eventSchema; reading any other property of an Event document
\* yields undefined.
EventPaths ==
  {"title", "description", "location", "district", "date", "time",
   "images", "reports", "createdBy", "createdAt"}

EventLink(id) == [path |-> "/events/", id |-> id]

RegistrationsLink(id) == [path |-> "/event-registrations/", id |-> id]

\* usersToNotify.map(...).filter(Boolean): every stored user but the creator,
\* in the order User.find({}) returns them.
RECURSIVE Ascending(_)
Ascending(S) ==
  IF S = {} THEN <<>>
  ELSE LET least == CHOOSE x \in S : \A y \in S : x <= y
       IN <<least>> \o Ascending(S \ {least})

NotifyRecipientsWithCreator(by) == Ascending(DOMAIN users)

NotifyRecipients(by) == Ascending({u \in DOMAIN users : u # by})

\* The createNotification calls of the fan-out, all started by the map; the
\* writes of the recipients in failed reject, the others are stored.
RECURSIVE FanOut(_, _, _, _, _, _)
FanOut(coll, recipients, failed, title, district, id) ==
  IF recipients = <<>> THEN coll
  ELSE FanOut(CreateNotification(coll, Head(recipients), "New Event Created",
                                 <<"A new event \"", title, "\" has been created in ", district>>,
                                 "info", EventLink(id), Head(recipients) \notin failed),
              Tail(recipients), failed, title, district, id)

\* POST /events for a request that carries no files (the upload blocks are
\* skipped): validate, save the event, notify, answer.  The _id is generated.
\* Promise.all rejects when any notification write rejects, which the catch
\* answers with 500.
CreateEventHandler(by, title, district, failed) ==
  LET req == [by |-> by, title |-> title, district |-> district, failed |-> failed]
      id == 100 + eventCount + 1
  IN
  IF title = "" \/ district = ""
    THEN [events |-> events, eventCount |-> eventCount, notifications |-> notifications,
          resp |-> Response("createEvent", req, 400, NoBody)]
  ELSE [events |-> events @@ (id :> [title |-> title, district |-> district, createdBy |-> by,
                                     images |-> <<>>, reports |-> <<>>]),
        eventCount |-> eventCount + 1,
        notifications |-> FanOut(notifications, NotifyRecipients(by), failed, title, district, id),
        resp |-> IF failed \cap Range(NotifyRecipients(by)) = {}
                   THEN Response("createEvent", req, 201, id)
                   ELSE Response("createEvent", req, 500, "Server error")]

CreateEvent(by, title, district, failed) ==
  /\ Auth(by) /\ CheckRole(by, {"admin", "block_officer", "Official_member"})
  /\ failed \subseteq Range(NotifyRecipients(by))
  /\ eventCount < MaxEvents
  /\ Len(notifications) + Len(NotifyRecipients(by)) <= MaxNotifs
  /\ LET r == CreateEventHandler(by, title, district, failed) IN
       /\ events' = r.events
       /\ eventCount' = r.eventCount
       /\ notifications' = r.notifications
       /\ resp' = r.resp
  /\ UNCHANGED <<restVars, users, userCount, cloudinary, registrations>>

\* The authorisation test of the update and delete routes: the requester is
\* the event's createdBy or has role admin.
MayMutateWhateverRole(id, by) == TRUE

MayMutate(id, by) == events[id].createdBy = by \/ users[by].role = "admin"

\* cloudinary.uploader.upload_stream for each of n files, all started by the
\* map: the uploads in fails reject, each other one stores an asset under a
\* fresh public id.  [cloudinary, ids]: the storage left and the ids resolved.
RECURSIVE UploadAll(_, _, _, _)
UploadAll(cl, n, fails, i) ==
  IF i > n THEN [cloudinary |-> cl, ids |-> <<>>]
  ELSE IF i \in fails THEN UploadAll(cl, n, fails, i + 1)
  ELSE LET id == 400 + cl.uploaded + 1
           rest == UploadAll([assets |-> cl.assets \cup {id}, uploaded |-> cl.uploaded + 1],
                             n, fails, i + 1)
       IN [cloudinary |-> rest.cloudinary, ids |-> <<id>> \o rest.ids]

\* cloudinary.uploader.destroy for each of ids, all started by the map: the
\* calls in fails reject, each other one releases its asset.
DestroyAll(cl, ids, fails) == [cl EXCEPT !.assets = @ \ (ids \ fails)]

\* PUT /events/:id.  body.existingImages and body.existingReports are the
\* attachment ids the request keeps (absent: none); files holds the numbers of
\* image and report files sent; uploadFails and destroyFails name the storage
\* calls that reject.  A rejection reaches the catch through Promise.all.
UpdateEventHandler(by, id, body, files, uploadFails, destroyFails) ==
  LET req == [by |-> by, id |-> id, body |-> body, files |-> files,
              uploadFails |-> uploadFails, destroyFails |-> destroyFails]
      same == [events |-> events, cloudinary |-> cloudinary]
  IN
  IF id \notin DOMAIN events
    THEN same @@ [resp |-> Response("updateEvent", req, 404, "Event not found")]
  ELSE IF ~MayMutate(id, by)
    THEN same @@ [resp |-> Response("updateEvent", req, 403, "Not authorized")]
  ELSE
    LET event == events[id]
        existingImages == SelectSeq(event.images, LAMBDA a : a \in body.existingImages)
        existingReports == SelectSeq(event.reports, LAMBDA a : a \in body.existingReports)
        newImages == UploadAll(cloudinary, files.images, uploadFails.images, 1)
        newReports == UploadAll(newImages.cloudinary, files.reports, uploadFails.reports, 1)
        removed == (Range(event.images) \ Range(existingImages))
                     \cup (Range(event.reports) \ Range(existingReports))
        released == DestroyAll(newReports.cloudinary, removed, destroyFails)
        updated == [event EXCEPT !.title = body.title,
                                 !.images = existingImages \o newImages.ids,
                                 !.reports = existingReports \o newReports.ids]
    IN
    IF uploadFails.images # {}
      THEN [events |-> events, cloudinary |-> newImages.cloudinary,
            resp |-> Response("updateEvent", req, 500, "Server error")]
    ELSE IF uploadFails.reports # {}
      THEN [events |-> events, cloudinary |-> newReports.cloudinary,
            resp |-> Response("updateEvent", req, 500, "Server error")]
    ELSE IF destroyFails \cap removed # {}
      THEN [events |-> events, cloudinary |-> released,
            resp |-> Response("updateEvent", req, 500, "Server error")]
    ELSE [events |-> [events EXCEPT ![id] = updated], cloudinary |-> released,
          resp |-> Response("updateEvent", req, 200, updated)]

UpdateEvent(by, id, body, files, uploadFails, destroyFails) ==
  /\ Auth(by) /\ CheckRole(by, {"admin", "block_officer", "Official_member"})
  /\ cloudinary.uploaded + files.images + files.reports <= MaxUploads
  /\ uploadFails.images \subseteq 1..files.images
  /\ uploadFails.reports \subseteq 1..files.reports
  \* a storage call that is never reached has no outcome to choose
  /\ uploadFails.images # {} => uploadFails.reports = {}
  /\ uploadFails.images # {} \/ uploadFails.reports # {} => destroyFails = {}
  /\ IF id \in DOMAIN events /\ MayMutate(id, by)
       THEN /\ body.existingImages \subseteq Range(events[id].images)
            /\ body.existingReports \subseteq Range(events[id].reports)
            /\ destroyFails \subseteq (Range(events[id].images) \ body.existingImages)
                                      \cup (Range(events[id].reports) \ body.existingReports)
       ELSE /\ body.existingImages = {} /\ body.existingReports = {}
            /\ uploadFails.images = {} /\ uploadFails.reports = {} /\ destroyFails = {}
  /\ LET r == UpdateEventHandler(by, id, body, files, uploadFails, destroyFails) IN
       /\ events' = r.events
       /\ cloudinary' = r.cloudinary
       /\ resp' = r.resp
  /\ UNCHANGED <<restVars, users, userCount, eventCount, registrations, notifications>>

\* event.deleteOne(): the Event document goes, no other collection is touched.
EventDeleteOneCascading(id) ==
  [events |-> [e \in DOMAIN events \ {id} |-> events[e]],
   registrations |-> [r \in {x \in DOMAIN registrations : registrations[x].event # id}
                        |-> registrations[r]]]

EventDeleteOne(id) ==
  [events |-> [e \in DOMAIN events \ {id} |-> events[e]],
   registrations |-> registrations]

\* DELETE /events/:id.  destroyFails names the destroy calls that reject; a
\* rejection reaches the catch through Promise.all, before event.deleteOne().
DeleteEventHandler(by, id, destroyFails) ==
  LET req == [by |-> by, id |-> id, destroyFails |-> destroyFails]
      same == [events |-> events, registrations |-> registrations, cloudinary |-> cloudinary]
  IN
  IF id \notin DOMAIN events
    THEN same @@ [resp |-> Response("deleteEvent", req, 404, "Event not found")]
  ELSE IF ~MayMutate(id, by)
    THEN same @@ [resp |-> Response("deleteEvent", req, 403, "Not authorized")]
  ELSE
    LET attachments == Range(events[id].images) \cup Range(events[id].reports)
        released == DestroyAll(cloudinary, attachments, destroyFails)
    IN
    IF destroyFails \cap attachments # {}
      THEN [events |-> events, registrations |-> registrations, cloudinary |-> released,
            resp |-> Response("deleteEvent", req, 500, "Server error")]
    ELSE EventDeleteOne(id) @@
           [cloudinary |-> released,
            resp |-> Response("deleteEvent", req, 200, "Event deleted")]

DeleteEvent(by, id, destroyFails) ==
  /\ Auth(by) /\ CheckRole(by, {"admin", "block_officer", "Official_member"})
  \* a storage call that is never reached has no outcome to choose
  /\ IF id \in DOMAIN events /\ MayMutate(id, by)
       THEN destroyFails \subseteq Range(events[id].images) \cup Range(events[id].reports)
       ELSE destroyFails = {}
  /\ LET r == DeleteEventHandler(by, id, destroyFails) IN
       /\ events' = r.events
       /\ registrations' = r.registrations
       /\ cloudinary' = r.cloudinary
       /\ resp' = r.resp
  /\ UNCHANGED <<restVars, users, userCount, eventCount, notifications>>

\* ------------------------------------------------ event-registration routes
\* express-validator checks of POST /event-registrations; the fields not
\* listed here (email, phone, address, district, taluka, village) are taken
\* as present and well-formed.
ValidationErrorsOfNameOnly(body) ==
  {f \in {"name"} : body.name = ""}

ValidationErrors(body) ==
  {f \in {"name", "age", "gender"} :
     \/ f = "name" /\ body.name = ""
     \/ f = "age" /\ body.age < 1
     \/ f = "gender" /\ body.gender \notin {"male", "female", "other"}}

\* The documents of EventRegistration.find({event}).sort({createdAt: -1}).
RegistrationsOfAnyEvent(eventId) ==
  SortCreatedAtDesc({[_id |-> r, createdAt |-> registrations[r].createdAt] :
                       r \in DOMAIN registrations})

RegistrationsOf(eventId) ==
  SortCreatedAtDesc({[_id |-> r, createdAt |-> registrations[r].createdAt] :
                       r \in {x \in DOMAIN registrations : registrations[x].event = eventId}})

\* The createNotification call of the register route: to the event's creator,
\* naming the registrant and the event.
RegisterNotificationToRegistrant(coll, id, body, ok) ==
  CreateNotification(coll, id, "New Event Registration",
                     <<body.name, " has registered for your event \"",
                       events[body.event].title, "\"">>,
                     "info", RegistrationsLink(body.event), ok)

RegisterNotification(coll, id, body, ok) ==
  CreateNotification(coll, events[body.event].createdBy, "New Event Registration",
                     <<body.name, " has registered for your event \"",
                       events[body.event].title, "\"">>,
                     "info", RegistrationsLink(body.event), ok)

\* new EventRegistration({...req.body, status: 'pending'}): the paths of the
\* schema the body carries, then status, which overrides the body's; now is
\* the creation timestamp.
NewRegistrationStatusFromBody(body, now) ==
  [event |-> body.event, name |-> body.name, status |-> body.status,
   sharedWith |-> body.sharedWith, createdAt |-> now]

NewRegistration(body, now) ==
  [event |-> body.event, name |-> body.name, status |-> "pending",
   sharedWith |-> body.sharedWith, createdAt |-> now]

\* The catch of the register route logs and answers 500; of the collection
\* as it was before the handler and as the handler left it, the latter stays.
RegisterCatchRollsBack(before, after) == before

RegisterCatch(before, after) == after

\* POST /event-registrations: saveOk and notifyOk are the outcomes of
\* registration.save() and of the creator's notification write.
RegisterHandler(body, saveOk, notifyOk) ==
  LET n == Cardinality(DOMAIN registrations)
      id == 200 + n + 1
      req == [body |-> body, saveOk |-> saveOk, notifyOk |-> notifyOk]
      same == [registrations |-> registrations, notifications |-> notifications]
  IN
  IF ValidationErrors(body) # {}
    THEN same @@ [resp |-> Response("register", req, 400, ValidationErrors(body))]
  ELSE IF body.event \notin DOMAIN events
    THEN same @@ [resp |-> Response("register", req, 404, "Event not found")]
  ELSE IF ~saveOk
    THEN same @@ [resp |-> Response("register", req, 500, "Server Error")]
  ELSE LET registration == NewRegistration(body, n + 1)
           saved == registrations @@ (id :> registration)
           notified == RegisterNotification(notifications, id, body, notifyOk)
       IN IF notifyOk
            THEN [registrations |-> saved, notifications |-> notified,
                  resp |-> Response("register", req, 200, id)]
            ELSE [registrations |-> RegisterCatch(registrations, saved),
                  notifications |-> notified,
                  resp |-> Response("register", req, 500, "Server Error")]

Register(body, saveOk, notifyOk) ==
  /\ Cardinality(DOMAIN registrations) < MaxRegs
  /\ Len(notifications) < MaxNotifs
  \* a write that is never reached has no outcome to choose
  /\ ValidationErrors(body) # {} \/ body.event \notin DOMAIN events => saveOk /\ notifyOk
  /\ ~saveOk => notifyOk
  /\ LET r == RegisterHandler(body, saveOk, notifyOk) IN
       /\ registrations' = r.registrations
       /\ notifications' = r.notifications
       /\ resp' = r.resp
  /\ UNCHANGED <<restVars, users, userCount, events, eventCount, cloudinary>>

\* GET /event-registrations/event/:eventId.  The creator test short-circuits
\* the && for the creator; for anyone else event.sharedWith is read, and
\* calling includes on undefined throws a TypeError the catch answers 500.
ListForEventHandler(eventId, requester) ==
  LET req == [event |-> eventId, requester |-> requester] IN
  IF eventId \notin DOMAIN events
    THEN Response("listForEvent", req, 404, "Event not found")
  ELSE IF /\ events[eventId].createdBy # requester
          /\ "sharedWith" \notin EventPaths
    THEN Response("listForEvent", req, 500, "Server Error")
  ELSE IF /\ events[eventId].createdBy # requester
          /\ requester \notin Range(events[eventId].sharedWith)
    THEN Response("listForEvent", req, 403, "Not authorized")
  ELSE Response("listForEvent", req, 200, RegistrationsOf(eventId))

ListForEvent(eventId, requester) ==
  /\ Auth(requester)
  /\ resp' = ListForEventHandler(eventId, requester)
  /\ UNCHANGED <<restVars, users, userCount, events, eventCount, cloudinary, registrations, notifications>>

\* The values spread into the Set of the share route.  registration.sharedWith
\* yields the stored references as ObjectId objects, one object per array
\* position; req.body.userIds yields the JSON strings of the request.
LoadedRefs(sharedWith) ==
  [i \in 1..Len(sharedWith) |-> [kind |-> "ObjectId", ref |-> i, id |-> sharedWith[i]]]

BodyStrings(userIds) ==
  [i \in 1..Len(userIds) |-> [kind |-> "string", ref |-> 0, id |-> userIds[i]]]

\* SameValueZero, the equality of Set: two objects are equal when they are the
\* same object, two strings when they hold the same characters, and an object
\* never equals a string.
SameValueZero(a, b) ==
  /\ a.kind = b.kind
  /\ IF a.kind = "ObjectId" THEN a.ref = b.ref ELSE a.id = b.id

\* [...new Set(values)]: the values in first-insertion order, equal ones once.
RECURSIVE NewSet(_)
NewSet(values) ==
  IF values = <<>> THEN <<>>
  ELSE LET front == NewSet(SubSeq(values, 1, Len(values) - 1))
           last == values[Len(values)]
       IN IF \E i \in 1..Len(front) : SameValueZero(front[i], last)
            THEN front
            ELSE Append(front, last)

\* Assigning to sharedWith casts every element to the ObjectId it denotes.
CastObjectIds(values) == [i \in 1..Len(values) |-> values[i].id]

\* registration.sharedWith = [...new Set([...registration.sharedWith, ...userIds])]
MergeSharedWith(sharedWith, userIds) ==
  CastObjectIds(NewSet(LoadedRefs(sharedWith) \o BodyStrings(userIds)))

\* The checks of the share route before it writes: the status and message of
\* the refusal, or status 0 when the request goes on.
ShareRefusalOfUnknownOnly(id, requester) ==
  IF id \notin DOMAIN registrations
    THEN [status |-> 404, msg |-> "Registration not found"]
  ELSE IF registrations[id].event \notin DOMAIN events
    THEN [status |-> 404, msg |-> "Event not found"]
  ELSE [status |-> 0, msg |-> ""]

ShareRefusal(id, requester) ==
  IF id \notin DOMAIN registrations
    THEN [status |-> 404, msg |-> "Registration not found"]
  ELSE IF registrations[id].event \notin DOMAIN events
    THEN [status |-> 404, msg |-> "Event not found"]
  ELSE IF events[registrations[id].event].createdBy # requester
    THEN [status |-> 403, msg |-> "Not authorized"]
  ELSE [status |-> 0, msg |-> ""]

\* The users the share route notifies: for (const userId of req.body.userIds).
ShareRecipientsNewOnly(sharedWith, userIds) ==
  SelectSeq(userIds, LAMBDA u : u \notin Range(sharedWith))

ShareRecipients(sharedWith, userIds) == userIds

\* The for-await loop of the share route: one notification per entry of
\* userIds, in order; the write of entry failAt (0: none) throws and ends it.
RECURSIVE ShareNotify(_, _, _, _, _)
ShareNotify(coll, userIds, i, failAt, event) ==
  IF i > Len(userIds) \/ i = failAt THEN coll
  ELSE ShareNotify(CreateNotification(coll, userIds[i], "Event Registration Shared",
                                      <<"Event registration for \"", events[event].title,
                                        "\" has been shared with you">>,
                                      "info", RegistrationsLink(event), TRUE),
                   userIds, i + 1, failAt, event)

\* POST /event-registrations/share/:registrationId.  body.isArray tells
\* whether req.body.userIds is an array, body.userIds is that array.
ShareHandler(id, requester, body, saveOk, failAt) ==
  LET req == [id |-> id, requester |-> requester, body |-> body,
              saveOk |-> saveOk, failAt |-> failAt]
      userIds == body.userIds
      same == [registrations |-> registrations, notifications |-> notifications]
      refusal == ShareRefusal(id, requester)
  IN
  IF refusal.status # 0
    THEN same @@ [resp |-> Response("share", req, refusal.status, refusal.msg)]
  ELSE IF ~body.isArray
    THEN same @@ [resp |-> Response("share", req, 200, registrations[id])]
  ELSE IF ~saveOk
    THEN same @@ [resp |-> Response("share", req, 500, "Server Error")]
  ELSE LET saved == [registrations[id] EXCEPT
                       !.sharedWith = MergeSharedWith(registrations[id].sharedWith, userIds)]
       IN [registrations |-> [registrations EXCEPT ![id] = saved],
           notifications |-> ShareNotify(notifications,
                                         ShareRecipients(registrations[id].sharedWith, userIds),
                                         1, failAt, registrations[id].event),
           resp |-> IF failAt = 0
                      THEN Response("share", req, 200, saved)
                      ELSE Response("share", req, 500, "Server Error")]

Share(id, requester, body, saveOk, failAt) ==
  /\ Auth(requester)
  /\ failAt <= Len(body.userIds)
  \* a write that is never reached has no outcome to choose
  /\ ~saveOk => failAt = 0
  /\ \/ id \notin DOMAIN registrations
     \/ registrations[id].event \notin DOMAIN events
     \/ events[registrations[id].event].createdBy # requester
     \/ ~body.isArray
     => saveOk /\ failAt = 0
  /\ id \in DOMAIN registrations =>
       /\ Len(registrations[id].sharedWith) + Len(body.userIds) <= MaxSharedLen
       /\ Len(notifications) + Len(body.userIds) <= MaxNotifs
  /\ LET r == ShareHandler(id, requester, body, saveOk, failAt) IN
       /\ registrations' = r.registrations
       /\ notifications' = r.notifications
       /\ resp' = r.resp
  /\ UNCHANGED <<restVars, users, userCount, events, eventCount, cloudinary>>

\* The checks of the status route before it writes, as in the share route.
UpdateStatusRefusalOfUnknownOnly(id, requester) ==
  IF id \notin DOMAIN registrations
    THEN [status |-> 404, msg |-> "Registration not found"]
  ELSE IF registrations[id].event \notin DOMAIN events
    THEN [status |-> 404, msg |-> "Event not found"]
  ELSE [status |-> 0, msg |-> ""]

UpdateStatusRefusal(id, requester) ==
  IF id \notin DOMAIN registrations
    THEN [status |-> 404, msg |-> "Registration not found"]
  ELSE IF registrations[id].event \notin DOMAIN events
    THEN [status |-> 404, msg |-> "Event not found"]
  ELSE IF events[registrations[id].event].createdBy # requester
    THEN [status |-> 403, msg |-> "Not authorized"]
  ELSE [status |-> 0, msg |-> ""]

\* The createNotification call of the status route: the recipient is
\* registration._id, the message names the old and the new status.
UpdateStatusNotificationToCreator(coll, id, event, oldStatus, newStatus, ok) ==
  CreateNotification(coll, events[event].createdBy, "Registration Status Updated",
                     <<"Your registration status for \"", events[event].title,
                       "\" has been updated from ", oldStatus, " to ", newStatus>>,
                     "info", EventLink(event), ok)

UpdateStatusNotification(coll, id, event, oldStatus, newStatus, ok) ==
  CreateNotification(coll, id, "Registration Status Updated",
                     <<"Your registration status for \"", events[event].title,
                       "\" has been updated from ", oldStatus, " to ", newStatus>>,
                     "info", EventLink(event), ok)

\* PUT /event-registrations/:registrationId/status.  saveOk and notifyOk are
\* the outcomes of registration.save() and of the notification write.
UpdateStatusHandler(id, requester, status, saveOk, notifyOk) ==
  LET req == [id |-> id, requester |-> requester, status |-> status,
              saveOk |-> saveOk, notifyOk |-> notifyOk]
      same == [registrations |-> registrations, notifications |-> notifications]
      refusal == UpdateStatusRefusal(id, requester)
  IN
  IF refusal.status # 0
    THEN same @@ [resp |-> Response("updateStatus", req, refusal.status, refusal.msg)]
  ELSE IF ~saveOk
    THEN same @@ [resp |-> Response("updateStatus", req, 500, "Server Error")]
  ELSE LET oldStatus == registrations[id].status
           saved == [registrations[id] EXCEPT !.status = status]
       IN [registrations |-> [registrations EXCEPT ![id] = saved],
           notifications |-> UpdateStatusNotification(notifications, id, registrations[id].event,
                                                      oldStatus, status, notifyOk),
           resp |-> IF notifyOk
                      THEN Response("updateStatus", req, 200, saved)
                      ELSE Response("updateStatus", req, 500, "Server Error")]

UpdateStatus(id, requester, status, saveOk, notifyOk) ==
  /\ Auth(requester)
  /\ Len(notifications) < MaxNotifs
  \* a write that is never reached has no outcome to choose
  /\ UpdateStatusRefusal(id, requester).status # 0 => saveOk /\ notifyOk
  /\ ~saveOk => notifyOk
  /\ LET r == UpdateStatusHandler(id, requester, status, saveOk, notifyOk) IN
       /\ registrations' = r.registrations
       /\ notifications' = r.notifications
       /\ resp' = r.resp
  /\ UNCHANGED <<restVars, users, userCount, events, eventCount, cloudinary>>

\* ---------------------------------------------------------------- requests
Titles == {"", "Camp"}

Districts == {"Sangli"}

RegisterBodies ==
  [event : EventIds, name : {"", "Asha"}, age : {0, 1}, gender : {"male", "x"},
   sharedWith : SeqsUpTo(UserIds, 1)]

Statuses == {"pending", "approved"}

UpdateTitles == {"Fair"}

UpdateEventBodies ==
  [title : UpdateTitles, existingImages : SUBSET AssetIds, existingReports : SUBSET AssetIds]

Files == [images : 0..MaxFiles, reports : 0..MaxFiles]

UploadFails == [images : SUBSET (1..MaxFiles), reports : SUBSET (1..MaxFiles)]

ShareBodies ==
  {[isArray |-> FALSE, userIds |-> <<>>]}
    \cup {[isArray |-> TRUE, userIds |-> ids] : ids \in SeqsUpTo(UserIds, MaxShareIds)}

\* ------------------------------------------------------------------- init
\* The store after scripts/createAdmin: one admin account, nothing else.
Init ==
  /\ users = (1 :> [role |-> "admin", district |-> Undefined, officialRole |-> Undefined])
  /\ userCount = 1
  /\ events = <<>>
  /\ eventCount = 0
  /\ cloudinary = [assets |-> {}, uploaded |-> 0]
  /\ registrations = <<>>
  /\ notifications = <<>>
  /\ resp = Response("none", NoBody, 0, NoBody)
  /\ initiatives = <<>>
  /\ initiativeCount = 0
  /\ clock = 1
  /\ io = [connected |-> {}, opened |-> 0]
  /\ connectedUsers = <<>>
  /\ inflight = <<>>

Next ==
  \/ \E by \in UserIds : CreateOfficial(by, "Clerk")
  \/ \E by \in UserIds, id \in UserIds : DeleteUser(by, ToHexString(id))
  \/ \E by \in UserIds, title \in Titles, district \in Districts, failed \in SUBSET UserIds :
       CreateEvent(by, title, district, failed)
  \/ \E body \in RegisterBodies, saveOk \in BOOLEAN, notifyOk \in BOOLEAN :
       Register(body, saveOk, notifyOk)
  \/ \E e \in EventIds, requester \in UserIds : ListForEvent(e, requester)
  \/ \E id \in RegIds, requester \in UserIds, body \in ShareBodies,
        saveOk \in BOOLEAN, failAt \in 0..MaxShareIds :
       Share(id, requester, body, saveOk, failAt)
  \/ \E u \in UserIds, page \in 1..MaxPage, limit \in 1..MaxLimit :
       GetNotificationsRoute(u, page, limit)
  \/ \E u \in UserIds : UnreadCountRoute(u)
  \/ \E u \in UserIds, id \in NotifIds : MarkAsReadRoute(u, id)
  \/ \E u \in UserIds : MarkAllReadRoute(u)

Spec == Init /\ [][Next]_vars

\* ------------------------------------------- the notification service alone
\* NotificationService under any caller: createNotification is called for any
\* recipient, whatever route calls it, and its write succeeds or fails.
CreateNotificationCall(recipient, ok) ==
  /\ Len(notifications) < MaxNotifs
  /\ notifications' = CreateNotification(notifications, recipient, "New Event Created",
                                         <<"A new event \"", "Camp", "\" has been created in ",
                                           "Sangli">>,
                                         "info", EventLink(101), ok)
  /\ resp' = Response("createNotification", [recipient |-> recipient],
                      IF ok THEN 200 ELSE 500, NoBody)
  /\ UNCHANGED <<restVars, users, userCount, events, eventCount, cloudinary, registrations>>

\* The store once the admin has created every official account.
InitNotif ==
  /\ users = [u \in UserIds |->
                IF u = 1
                  THEN [role |-> "admin", district |-> Undefined, officialRole |-> Undefined]
                  ELSE [role |-> "Official_member", district |-> Undefined,
                        officialRole |-> "Clerk"]]
  /\ userCount = MaxUsers
  /\ events = <<>>
  /\ eventCount = 0
  /\ cloudinary = [assets |-> {}, uploaded |-> 0]
  /\ registrations = <<>>
  /\ notifications = <<>>
  /\ resp = Response("none", NoBody, 0, NoBody)
  /\ initiatives = <<>>
  /\ initiativeCount = 0
  /\ clock = 1
  /\ io = [connected |-> {}, opened |-> 0]
  /\ connectedUsers = <<>>
  /\ inflight = <<>>

NextNotif ==
  \/ \E recipient \in UserIds, ok \in BOOLEAN : CreateNotificationCall(recipient, ok)
  \/ \E u \in UserIds, page \in 1..MaxPage, limit \in 1..MaxLimit :
       GetNotificationsRoute(u, page, limit)
  \/ \E u \in UserIds : UnreadCountRoute(u)
  \/ \E u \in UserIds, id \in NotifIds : MarkAsReadRoute(u, id)
  \/ \E u \in UserIds : MarkAllReadRoute(u)

SpecNotif == InitNotif /\ [][NextNotif]_vars

\* ------------------------------------------ the registrations of an event
\* The routes that write registrations, and the creation and deletion of
\* events, once the admin has created the official accounts.
NextReg ==
  \/ \E by \in UserIds, title \in Titles, district \in Districts, failed \in SUBSET UserIds :
       CreateEvent(by, title, district, failed)
  \/ \E by \in UserIds, id \in EventIds : DeleteEvent(by, id, {})
  \/ \E body \in RegisterBodies, saveOk \in BOOLEAN, notifyOk \in BOOLEAN :
       Register(body, saveOk, notifyOk)
  \/ \E id \in RegIds, requester \in UserIds, body \in ShareBodies,
        saveOk \in BOOLEAN, failAt \in 0..MaxShareIds :
       Share(id, requester, body, saveOk, failAt)
  \/ \E id \in RegIds, requester \in UserIds, status \in Statuses,
        saveOk \in BOOLEAN, notifyOk \in BOOLEAN :
       UpdateStatus(id, requester, status, saveOk, notifyOk)

SpecReg == InitNotif /\ [][NextReg]_vars

\* ------------------------------------------------- the notification feed
\* Every route that writes a notification or a registration, with the routes
\* that mark notifications read.
NextFeed ==
  \/ NextReg
  \/ \E u \in UserIds, id \in NotifIds : MarkAsReadRoute(u, id)
  \/ \E u \in UserIds : MarkAllReadRoute(u)

SpecFeed == InitNotif /\ [][NextFeed]_vars

\* ------------------------------------- listing the registrations of events
\* Several events, each with several registrations: events are created and
\* deleted, people register, and the registrations of an event are listed.
MaxListEvents == 2

MaxListRegs == 3

ListEventIds == {100 + i : i \in 1..MaxListEvents}

ListRegisterBodies ==
  [event : ListEventIds, name : {"Asha"}, age : {1}, gender : {"male"}, sharedWith : {<<>>}]

ListCreateEvent(by) ==
  /\ Auth(by) /\ CheckRole(by, {"admin", "block_officer", "Official_member"})
  /\ eventCount < MaxListEvents
  /\ LET r == CreateEventHandler(by, "Camp", "Sangli", {}) IN
       /\ events' = r.events
       /\ eventCount' = r.eventCount
       /\ notifications' = r.notifications
       /\ resp' = r.resp
  /\ UNCHANGED <<restVars, users, userCount, cloudinary, registrations>>

ListRegister(body) ==
  /\ Cardinality(DOMAIN registrations) < MaxListRegs
  /\ LET r == RegisterHandler(body, TRUE, TRUE) IN
       /\ registrations' = r.registrations
       /\ notifications' = r.notifications
       /\ resp' = r.resp
  /\ UNCHANGED <<restVars, users, userCount, events, eventCount, cloudinary>>

NextList ==
  \/ \E by \in UserIds : ListCreateEvent(by)
  \/ \E by \in UserIds, id \in ListEventIds : DeleteEvent(by, id, {})
  \/ \E body \in ListRegisterBodies : ListRegister(body)
  \/ \E e \in ListEventIds, requester \in UserIds : ListForEvent(e, requester)

SpecList == InitNotif /\ [][NextList]_vars

\* ------------------------------------------- the status of a registration
\* Registration requests that carry a status of their own, and the status
\* route.
StatusRegisterBodies ==
  [event : EventIds, name : {"Asha"}, age : {1}, gender : {"male"}, sharedWith : {<<>>},
   status : {Undefined, "pending", "approved"}]

NextStatus ==
  \/ \E by \in UserIds, title \in Titles, district \in Districts :
       CreateEvent(by, title, district, {})
  \/ \E by \in UserIds, id \in EventIds : DeleteEvent(by, id, {})
  \/ \E body \in StatusRegisterBodies, saveOk \in BOOLEAN, notifyOk \in BOOLEAN :
       Register(body, saveOk, notifyOk)
  \/ \E id \in RegIds, requester \in UserIds, status \in Statuses,
        saveOk \in BOOLEAN, notifyOk \in BOOLEAN :
       UpdateStatus(id, requester, status, saveOk, notifyOk)

SpecStatus == InitNotif /\ [][NextStatus]_vars

\* ------------------------------------------- events and their attachments
NextEvents ==
  \/ \E by \in UserIds, title \in Titles, district \in Districts :
       CreateEvent(by, title, district, {})
  \/ \E by \in UserIds, id \in EventIds, body \in UpdateEventBodies, files \in Files,
        uploadFails \in UploadFails, destroyFails \in SUBSET AssetIds :
       UpdateEvent(by, id, body, files, uploadFails, destroyFails)
  \/ \E by \in UserIds, id \in EventIds, destroyFails \in SUBSET AssetIds :
       DeleteEvent(by, id, destroyFails)

SpecEvents == InitNotif /\ [][NextEvents]_vars

\* ------------------------------------------------------- the users routes
RoleInputs == {"admin", "block_officer", "public", "Official_member"}

OfficialRoleInputs == {Undefined, "", "Clerk"}

DistrictInputs == {Undefined, "", "Sangli"}

NextUsers ==
  \/ \E by \in UserIds, officialRole \in OfficialRoleInputs : CreateOfficial(by, officialRole)
  \/ \E by \in UserIds, id \in IdParams, role \in RoleInputs, district \in DistrictInputs :
       UpdateRole(by, id, role, district)
  \/ \E by \in UserIds, id \in IdParams, officialRole \in OfficialRoleInputs :
       AuthUpdateOfficial(by, id, officialRole)
  \/ \E by \in UserIds, id \in IdParams, officialRole \in OfficialRoleInputs :
       UsersUpdateOfficial(by, id, officialRole)
  \/ \E by \in UserIds, id \in IdParams : DeleteUser(by, id)
  \/ \E by \in UserIds, id \in IdParams : DeleteOfficial(by, id)

SpecUsers == Init /\ [][NextUsers]_vars

\* -------------------------------------------------------- initiatives routes
\* middleware/isAdmin: next() is called when req.user is set and its role is
\* admin or Official_member; otherwise the request is answered 403.
IsAdminOrBlockOfficer(u) ==
  /\ u \in DOMAIN users
  /\ users[u].role \in {"admin", "Official_member", "block_officer"}

IsAdmin(u) ==
  /\ u \in DOMAIN users
  /\ users[u].role \in {"admin", "Official_member"}

\* Time passes between two requests.
Tick ==
  /\ clock < MaxClock
  /\ clock' = clock + 1
  /\ resp' = Response("tick", NoBody, 0, NoBody)
  /\ UNCHANGED <<users, userCount, events, eventCount, cloudinary, registrations,
                 notifications, initiatives, initiativeCount, io, connectedUsers, inflight>>

\* new Initiative(...).save(): createdAt takes its default Date.now, and the
\* pre('save') hook sets updatedAt to Date.now().
InitiativeSave(doc, now) == [doc EXCEPT !.updatedAt = now]

\* Initiative.findByIdAndUpdate(id, updates, {new: true}): the paths of
\* updates are set; document middleware such as pre('save') does not run.
InitiativeFindByIdAndUpdate(coll, id, updates) ==
  [coll EXCEPT ![id].title = updates.title]

\* POST /initiatives for a request that carries no files and no existing
\* attachments.  A title that is missing fails the schema on save, which the
\* catch answers 400.
CreateInitiativeHandler(by, title) ==
  LET req == [by |-> by, title |-> title]
      id == 500 + initiativeCount + 1
      same == [initiatives |-> initiatives, initiativeCount |-> initiativeCount]
  IN
  IF ~IsAdmin(by)
    THEN same @@ [resp |-> Response("createInitiative", req, 403, "Access denied")]
  ELSE IF title \in {Undefined, ""}
    THEN same @@ [resp |-> Response("createInitiative", req, 400, "validation failed")]
  ELSE [initiatives |-> initiatives @@
                          (id :> InitiativeSave([title |-> title, createdBy |-> by,
                                                 createdAt |-> clock, updatedAt |-> clock],
                                                clock)),
        initiativeCount |-> initiativeCount + 1,
        resp |-> Response("createInitiative", req, 201, id)]

CreateInitiative(by, title) ==
  /\ Auth(by)
  /\ initiativeCount < MaxInitiatives
  /\ LET r == CreateInitiativeHandler(by, title) IN
       /\ initiatives' = r.initiatives
       /\ initiativeCount' = r.initiativeCount
       /\ resp' = r.resp
  /\ UNCHANGED <<users, userCount, events, eventCount, cloudinary, registrations,
                 notifications, clock, io, connectedUsers, inflight>>

\* PUT /initiatives/:id for a request that carries no files, on an initiative
\* that holds none.
UpdateInitiativeHandler(by, id, title) ==
  LET req == [by |-> by, id |-> id, title |-> title] IN
  IF ~IsAdmin(by)
    THEN [initiatives |-> initiatives,
          resp |-> Response("updateInitiative", req, 403, "Access denied")]
  ELSE IF id \notin DOMAIN initiatives
    THEN [initiatives |-> initiatives,
          resp |-> Response("updateInitiative", req, 404, "Initiative not found")]
  ELSE [initiatives |-> InitiativeFindByIdAndUpdate(initiatives, id, [title |-> title]),
        resp |-> Response("updateInitiative", req, 200, id)]

UpdateInitiative(by, id, title) ==
  /\ Auth(by)
  /\ LET r == UpdateInitiativeHandler(by, id, title) IN
       /\ initiatives' = r.initiatives
       /\ resp' = r.resp
  /\ UNCHANGED <<users, userCount, events, eventCount, cloudinary, registrations,
                 notifications, initiativeCount, clock, io, connectedUsers, inflight>>

\* DELETE /initiatives/:id on an initiative that holds no files.
DeleteInitiativeHandler(by, id) ==
  LET req == [by |-> by, id |-> id] IN
  IF ~IsAdmin(by)
    THEN [initiatives |-> initiatives,
          resp |-> Response("deleteInitiative", req, 403, "Access denied")]
  ELSE IF id \notin DOMAIN initiatives
    THEN [initiatives |-> initiatives,
          resp |-> Response("deleteInitiative", req, 404, "Initiative not found")]
  ELSE [initiatives |-> [i \in DOMAIN initiatives \ {id} |-> initiatives[i]],
        resp |-> Response("deleteInitiative", req, 200, "Initiative deleted")]

DeleteInitiative(by, id) ==
  /\ Auth(by)
  /\ LET r == DeleteInitiativeHandler(by, id) IN
       /\ initiatives' = r.initiatives
       /\ resp' = r.resp
  /\ UNCHANGED <<users, userCount, events, eventCount, cloudinary, registrations,
                 notifications, initiativeCount, clock, io, connectedUsers, inflight>>

InitiativeTitles == {"", "Outreach", "Policy"}

\* The initiatives routes, with the role changes of the admin and the clock.
NextInitiatives ==
  \/ Tick
  \/ \E by \in UserIds, id \in UserIds, role \in {"public", "block_officer"} :
       UpdateRole(by, ToHexString(id), role, "Sangli")
  \/ \E by \in UserIds, title \in InitiativeTitles : CreateInitiative(by, title)
  \/ \E by \in UserIds, id \in InitiativeIds, title \in InitiativeTitles :
       UpdateInitiative(by, id, title)
  \/ \E by \in UserIds, id \in InitiativeIds : DeleteInitiative(by, id)

SpecInitiatives == InitNotif /\ [][NextInitiatives]_vars

\* ------------------------------------------------------ socket connections
MaxSockets == 3

SocketIds == {600 + i : i \in 1..MaxSockets}

\* jwt.verify(token, secret): the payload of a token this server signed, or
\* an error for anything else.  verifies tells which; userId is the payload's.
Tokens ==
  {[verifies |-> TRUE, userId |-> u] : u \in UserIds} \cup {[verifies |-> FALSE, userId |-> 0]}

\* Map.prototype.set: the value of an existing key is replaced in place, a
\* new key is added at the end.
MapSet(map, key, value) ==
  IF \E i \in 1..Len(map) : map[i].userId = key
    THEN [i \in 1..Len(map) |->
            IF map[i].userId = key THEN [userId |-> key, socketId |-> value] ELSE map[i]]
    ELSE Append(map, [userId |-> key, socketId |-> value])

\* Map.prototype.delete
MapDelete(map, key) == SelectSeq(map, LAMBDA e : e.userId # key)

\* The loop of the disconnect handler: the entries in insertion order, the
\* first one whose value is the socket's id is deleted, then break.
DisconnectLoop(map, socketId) ==
  IF \E i \in 1..Len(map) : map[i].socketId = socketId
    THEN LET first == CHOOSE i \in 1..Len(map) :
                        /\ map[i].socketId = socketId
                        /\ \A j \in 1..(i - 1) : map[j].socketId # socketId
         IN MapDelete(map, map[first].userId)
    ELSE map

\* io.on('connection'): a client connects and gets a fresh socket id.
Connection ==
  /\ io.opened < MaxSockets
  /\ io' = [connected |-> io.connected \cup {600 + io.opened + 1}, opened |-> io.opened + 1]
  /\ resp' = Response("connection", NoBody, 0, 600 + io.opened + 1)
  /\ UNCHANGED <<users, userCount, events, eventCount, cloudinary, registrations, notifications,
                 initiatives, initiativeCount, clock, connectedUsers, inflight>>

\* socket.on('authenticate'): a token that verifies maps its userId to this
\* socket; any other token is logged and changes nothing.
Authenticate(socketId, token) ==
  /\ socketId \in io.connected
  /\ connectedUsers' = IF token.verifies
                          THEN MapSet(connectedUsers, token.userId, socketId)
                          ELSE connectedUsers
  /\ resp' = Response("authenticate", [socket |-> socketId, token |-> token], 0, NoBody)
  /\ UNCHANGED <<users, userCount, events, eventCount, cloudinary, registrations, notifications,
                 initiatives, initiativeCount, clock, io, inflight>>

\* socket.on('disconnect')
Disconnect(socketId) ==
  /\ socketId \in io.connected
  /\ io' = [io EXCEPT !.connected = @ \ {socketId}]
  /\ connectedUsers' = DisconnectLoop(connectedUsers, socketId)
  /\ resp' = Response("disconnect", [socket |-> socketId], 0, NoBody)
  /\ UNCHANGED <<users, userCount, events, eventCount, cloudinary, registrations, notifications,
                 initiatives, initiativeCount, clock, inflight>>

NextSockets ==
  \/ Connection
  \/ \E socketId \in SocketIds, token \in Tokens : Authenticate(socketId, token)
  \/ \E socketId \in SocketIds : Disconnect(socketId)

SpecSockets == InitNotif /\ [][NextSockets]_vars

\* ------------------------------------------------ share requests in flight
\* The share route awaits the store twice: it reads the registration, merges
\* in memory, and awaits registration.save().  A request that has read and
\* not yet saved waits in inflight, and another request may run meanwhile.
MaxInflight == 2

ShareSlots == 1..MaxInflight

RaceRegisterBodies ==
  [event : EventIds, name : {"Asha"}, age : {1}, gender : {"male"}, sharedWith : {<<>>}]

\* Lines 83-100: the reads, the checks and the merge.  A refused request, or
\* one whose userIds is no array, is answered at once.
ShareRead(slot, id, requester, body) ==
  /\ Auth(requester)
  /\ slot \notin DOMAIN inflight
  /\ LET req == [slot |-> slot, id |-> id, requester |-> requester, body |-> body]
         refusal == ShareRefusal(id, requester)
     IN IF refusal.status # 0
          THEN /\ resp' = Response("shareRead", req, refusal.status, refusal.msg)
               /\ inflight' = inflight
        ELSE IF ~body.isArray
          THEN /\ resp' = Response("shareRead", req, 200, registrations[id])
               /\ inflight' = inflight
        ELSE /\ resp' = Response("shareRead", req, 0, NoBody)
             /\ inflight' = inflight @@
                  (slot :> [id |-> id, requester |-> requester, body |-> body,
                            read |-> registrations[id].sharedWith,
                            sharedWith |-> MergeSharedWith(registrations[id].sharedWith,
                                                           body.userIds),
                            phase |-> "read", status |-> 0])
  /\ UNCHANGED <<users, userCount, events, eventCount, cloudinary, registrations, notifications,
                 initiatives, initiativeCount, clock, io, connectedUsers>>

\* registration.save() of a document whose sharedWith was assigned: the
\* whole array is written with $set.  With the schema's versionKey the write
\* is conditioned on the version that was read and throws a VersionError
\* when the array was written meanwhile; without it the write goes through.
\* An array assigned with the elements it already had is not modified, and
\* saving an unmodified document writes nothing.
SaveSharedWith(coll, id, request, versionKey) ==
  IF request.sharedWith = request.read
    THEN [ok |-> TRUE, registrations |-> coll]
  ELSE IF versionKey /\ coll[id].sharedWith # request.read
    THEN [ok |-> FALSE, registrations |-> coll]
    ELSE [ok |-> TRUE,
          registrations |-> [coll EXCEPT ![id].sharedWith = request.sharedWith]]

\* Lines 101-115: the save, the notifications and the answer; an error of
\* the save is answered 500 by the catch.
ShareSave(slot, versionKey) ==
  /\ slot \in DOMAIN inflight
  /\ inflight[slot].phase = "read"
  /\ LET request == inflight[slot]
         req == [slot |-> slot, id |-> request.id, requester |-> request.requester,
                 body |-> request.body, versionKey |-> versionKey]
         saved == SaveSharedWith(registrations, request.id, request, versionKey)
     IN IF saved.ok
          THEN /\ registrations' = saved.registrations
               /\ notifications' = ShareNotify(notifications,
                                               ShareRecipients(request.read, request.body.userIds),
                                               1, 0, registrations[request.id].event)
               /\ resp' = Response("shareSave", req, 200, saved.registrations[request.id])
               /\ inflight' = [inflight EXCEPT ![slot].phase = "done", ![slot].status = 200]
          ELSE /\ registrations' = registrations
               /\ notifications' = notifications
               /\ resp' = Response("shareSave", req, 500, "Server Error")
               /\ inflight' = [inflight EXCEPT ![slot].phase = "done", ![slot].status = 500]
  /\ UNCHANGED <<users, userCount, events, eventCount, cloudinary,
                 initiatives, initiativeCount, clock, io, connectedUsers>>

NextRace ==
  \/ \E by \in UserIds, title \in Titles, district \in Districts :
       CreateEvent(by, title, district, {})
  \/ \E body \in RaceRegisterBodies : Register(body, TRUE, TRUE)
  \/ \E slot \in ShareSlots, id \in RegIds, requester \in UserIds, body \in ShareBodies :
       ShareRead(slot, id, requester, body)
  \/ \E slot \in ShareSlots, versionKey \in BOOLEAN : ShareSave(slot, versionKey)

SpecRace == InitNotif /\ [][NextRace]_vars

\* ------------------------------------------------ event updates in flight
\* PUT /events/:id awaits the store and the storage in turn: it reads the
\* event, and later releases the attachments the request drops and writes
\* the lists it computed from the event it read.  Requests without files.
UpdateSlots == 1..MaxInflight

\* Lines 294-316: the read, the checks and the lists of attachments kept.
UpdateEventRead(slot, by, id, body) ==
  /\ Auth(by) /\ CheckRole(by, {"admin", "block_officer", "Official_member"})
  /\ slot \notin DOMAIN inflight
  /\ IF id \in DOMAIN events /\ MayMutate(id, by)
       THEN /\ body.existingImages \subseteq Range(events[id].images)
            /\ body.existingReports \subseteq Range(events[id].reports)
       ELSE body.existingImages = {} /\ body.existingReports = {}
  /\ LET req == [slot |-> slot, by |-> by, id |-> id, body |-> body] IN
     IF id \notin DOMAIN events
       THEN /\ resp' = Response("updateEventRead", req, 404, "Event not found")
            /\ inflight' = inflight
     ELSE IF ~MayMutate(id, by)
       THEN /\ resp' = Response("updateEventRead", req, 403, "Not authorized")
            /\ inflight' = inflight
     ELSE /\ resp' = Response("updateEventRead", req, 0, NoBody)
          /\ inflight' = inflight @@
               (slot :> [by |-> by, id |-> id, body |-> body, event |-> events[id],
                         phase |-> "read"])
  /\ UNCHANGED <<users, userCount, events, eventCount, cloudinary, registrations, notifications,
                 initiatives, initiativeCount, clock, io, connectedUsers>>

\* Event.findByIdAndUpdate(id, {$set: data}, {new: true}): the document
\* after the update, or null when no document has the id.
EventFindByIdAndUpdate(coll, id, data) ==
  IF id \in DOMAIN coll
    THEN [coll EXCEPT ![id].title = data.title,
                      ![id].images = data.images,
                      ![id].reports = data.reports]
    ELSE coll

\* Lines 370-401: the attachments of the event as it was read that the
\* request does not keep are released, then the lists are written.
UpdateEventWrite(slot) ==
  /\ slot \in DOMAIN inflight
  /\ inflight[slot].phase = "read"
  /\ LET request == inflight[slot]
         event == request.event
         req == [slot |-> slot, by |-> request.by, id |-> request.id, body |-> request.body]
         existingImages == SelectSeq(event.images, LAMBDA a : a \in request.body.existingImages)
         existingReports == SelectSeq(event.reports, LAMBDA a : a \in request.body.existingReports)
         removed == (Range(event.images) \ Range(existingImages))
                      \cup (Range(event.reports) \ Range(existingReports))
         updated == EventFindByIdAndUpdate(events, request.id,
                                           [title |-> request.body.title,
                                            images |-> existingImages,
                                            reports |-> existingReports])
     IN /\ cloudinary' = DestroyAll(cloudinary, removed, {})
        /\ events' = updated
        /\ resp' = Response("updateEventWrite", req, 200,
                            IF request.id \in DOMAIN updated THEN updated[request.id] ELSE NoBody)
        /\ inflight' = [inflight EXCEPT ![slot].phase = "done"]
  /\ UNCHANGED <<users, userCount, eventCount, registrations, notifications,
                 initiatives, initiativeCount, clock, io, connectedUsers>>

NextEventsRace ==
  \/ \E by \in UserIds, title \in Titles, district \in Districts :
       CreateEvent(by, title, district, {})
  \/ \E by \in UserIds, id \in EventIds, body \in UpdateEventBodies, files \in Files :
       UpdateEvent(by, id, body, files, [images |-> {}, reports |-> {}], {})
  \/ \E slot \in UpdateSlots, by \in UserIds, id \in EventIds, body \in UpdateEventBodies :
       UpdateEventRead(slot, by, id, body)
  \/ \E slot \in UpdateSlots : UpdateEventWrite(slot)

SpecEventsRace == InitNotif /\ [][NextEventsRace]_vars

\* ------------------------------------------------------------------ claims
Contains(message, part) == \E i \in 1..Len(message) : message[i] = part

\* The documents a step adds to the notification collection.
Added == SubSeq(notifications', Len(notifications) + 1, Len(notifications'))

KeepsStored == SubSeq(notifications', 1, Len(notifications)) = notifications

\* C1: a register request answered 200 stores one registration and adds
\* exactly one notification, addressed to the createdBy of the event, whose
\* message holds the registrant's name and the event's title; a register
\* request that stores no registration adds no notification.
C1_RegisterNotifiesCreator ==
  [][resp'.op = "register" =>
       /\ resp'.status = 200 =>
            /\ KeepsStored
            /\ Len(Added) = 1
            /\ Added[1].recipient = events[resp'.req.body.event].createdBy
            /\ Contains(Added[1].message, resp'.req.body.name)
            /\ Contains(Added[1].message, events[resp'.req.body.event].title)
            /\ resp'.body \notin DOMAIN registrations
            /\ resp'.body \in DOMAIN registrations'
            /\ registrations'[resp'.body].name = resp'.req.body.name
            /\ registrations'[resp'.body].event = resp'.req.body.event
       /\ registrations' = registrations => notifications' = notifications]_vars

\* A register request was answered 200 while other notifications were
\* already stored: the newest notification is the registration notice,
\* addressed to the creator of the event.
C1_Witness ==
  /\ resp.op = "register" /\ resp.status = 200
  /\ Len(notifications) >= 2
  /\ notifications[Len(notifications)].recipient = events[resp.req.body.event].createdBy
  /\ notifications[Len(notifications)].title = "New Event Registration"

\* C2: a share answered 200 leaves sharedWith, as a set, the union of what it
\* held and the ids supplied, stores no id twice, and changes nothing when
\* every id supplied was already stored.
C2_ShareIsIdempotentUnion ==
  [][resp'.op = "share" /\ resp'.status = 200 /\ resp'.req.body.isArray =>
       /\ Range(registrations'[resp'.req.id].sharedWith)
            = Range(registrations[resp'.req.id].sharedWith) \cup Range(resp'.req.body.userIds)
       /\ NoDuplicates(registrations'[resp'.req.id].sharedWith)
       /\ Range(resp'.req.body.userIds) \subseteq Range(registrations[resp'.req.id].sharedWith)
            => registrations'[resp'.req.id].sharedWith
                 = registrations[resp'.req.id].sharedWith]_vars

\* C3: a user the creator has just shared a registration of an event with
\* (the share was answered 200 and named the user) is answered 200 with the
\* event's registrations when listing them.
C3_SharedUserMayList ==
  [][/\ resp.op = "share" /\ resp.status = 200 /\ resp.req.body.isArray
     /\ resp'.op = "listForEvent"
     /\ resp'.req.requester \in Range(resp.req.body.userIds)
     /\ resp'.req.event = registrations[resp.req.id].event
     => /\ resp'.status = 200
        /\ resp'.body = RegistrationsOf(resp'.req.event)]_vars

\* C4: listing the registrations of an event that does not exist is answered
\* 404; listing those of an existing event by a user who is neither its
\* creator nor named in a sharedWith list of its registrations is answered 403.
C4_ListForbiddenOrNotFound ==
  resp.op = "listForEvent" =>
    /\ resp.req.event \notin DOMAIN events => resp.status = 404
    /\ /\ resp.req.event \in DOMAIN events
       /\ events[resp.req.event].createdBy # resp.req.requester
       /\ \A r \in DOMAIN registrations :
            registrations[r].event = resp.req.event
              => resp.req.requester \notin Range(registrations[r].sharedWith)
       => resp.status = 403

\* C5: an event creation whose notification writes all succeed is answered
\* 201, and an event creation answered 201 has stored the event and added
\* exactly one notification for each stored user other than the creator, each
\* linking to /events/{id of the new event}, and none for the creator.
C5_FanOutToAllButCreator ==
  [][resp'.op = "createEvent" =>
       /\ resp'.req.failed = {} /\ resp'.status # 400 => resp'.status = 201
       /\ resp'.status = 201 =>
            /\ resp'.body \in DOMAIN events' \ DOMAIN events
            /\ events'[resp'.body].createdBy = resp'.req.by
            /\ KeepsStored
            /\ Len(Added) = Cardinality(DOMAIN users \ {resp'.req.by})
            /\ \A u \in DOMAIN users \ {resp'.req.by} :
                 Cardinality({i \in 1..Len(Added) : Added[i].recipient = u}) = 1
            /\ \A i \in 1..Len(Added) :
                 /\ Added[i].recipient # resp'.req.by
                 /\ Added[i].link = [path |-> "/events/", id |-> resp'.body]]_vars

\* An event created while another user is stored: that user holds a
\* notification linking to the event, the creator holds none.
C5_Witness ==
  /\ resp.op = "createEvent" /\ resp.status = 201
  /\ Cardinality(DOMAIN users) >= 2
  /\ \E i \in 1..Len(notifications) :
       /\ notifications[i].link = [path |-> "/events/", id |-> resp.body]
       /\ notifications[i].recipient \in DOMAIN users \ {resp.req.by}

\* C6: when a notification write of a fan-out fails, the notifications of the
\* other recipients are written and the request is answered with success
\* (201 for an event creation, 200 for a share).
C6_FanOutFailureIsDiscarded ==
  [][/\ resp'.op = "createEvent" /\ resp'.req.failed # {} /\ resp'.status # 400 =>
          /\ resp'.status = 201
          /\ {Added[i].recipient : i \in 1..Len(Added)}
               = (DOMAIN users \ {resp'.req.by}) \ resp'.req.failed
     /\ resp'.op = "share" /\ resp'.req.failAt # 0 =>
          /\ resp'.status = 200
          /\ Len(Added) = Len(resp'.req.body.userIds) - 1]_vars

\* C7: when the creator's notification write fails after the registration
\* was saved, the registration is stored with status pending and no
\* notification is added; and no step ever removes a
\* registration or adds a registration notice other than a register request
\* that stores its registration in the same step.
C7_NoRollbackNoRetry ==
  [][/\ resp'.op = "register" /\ ~resp'.req.notifyOk =>
          /\ notifications' = notifications
          /\ \E id \in DOMAIN registrations' \ DOMAIN registrations :
               /\ registrations'[id].status = "pending"
               /\ registrations'[id].event = resp'.req.body.event
               /\ registrations'[id].name = resp'.req.body.name
     /\ \A id \in DOMAIN registrations : id \in DOMAIN registrations'
     /\ (\E i \in 1..Len(Added) : Added[i].title = "New Event Registration") =>
          /\ resp'.op = "register"
          /\ DOMAIN registrations' # DOMAIN registrations]_vars

\* The registration of a register request whose notification write failed is
\* stored, pending, and no registration notice exists.
C7_Witness ==
  /\ resp.op = "register" /\ ~resp.req.notifyOk /\ resp.status = 500
  /\ \E id \in DOMAIN registrations : registrations[id].status = "pending"
  /\ \A i \in 1..Len(notifications) : notifications[i].title # "New Event Registration"

\* C8: markAsRead on a notification of the caller sets its read flag and
\* changes nothing else; on an id that is not stored, or is stored for
\* another recipient, the service throws "Notification not found", the route
\* gives the same answer in both cases and no notification changes.
C8_MarkAsReadOwnOnly ==
  [][resp'.op = "markAsRead" =>
       LET mine == {i \in 1..Len(notifications) :
                      /\ notifications[i]._id = resp'.req.id
                      /\ notifications[i].recipient = resp'.req.user}
       IN IF mine # {}
            THEN /\ resp'.status = 200
                 /\ Len(notifications') = Len(notifications)
                 /\ \A i \in 1..Len(notifications) :
                      notifications'[i] =
                        IF i \in mine THEN [notifications[i] EXCEPT !.read = TRUE]
                                      ELSE notifications[i]
            ELSE /\ MarkAsRead(notifications, resp'.req.id, resp'.req.user).error
                      = "Notification not found"
                 /\ resp'.status = 500
                 /\ resp'.body = "Error marking notification as read"
                 /\ notifications' = notifications]_vars

\* A caller was refused on a stored, unread notification of another user,
\* which is still unread.
C8_Witness ==
  /\ resp.op = "markAsRead" /\ resp.status = 500
  /\ \E i \in 1..Len(notifications) :
       /\ notifications[i]._id = resp.req.id
       /\ notifications[i].recipient # resp.req.user
       /\ ~notifications[i].read

\* C9: markAllAsRead(user) leaves no unread notification of user, changes
\* nothing but the read flags of user's notifications, changes nothing at all
\* when user had no unread notification, and a second call would change
\* nothing and leave the unread count 0.
C9_MarkAllAsReadIdempotent ==
  [][resp'.op = "markAllAsRead" =>
       /\ Len(notifications') = Len(notifications)
       /\ \A i \in 1..Len(notifications) :
            notifications'[i] =
              IF notifications[i].recipient = resp'.req.user
                THEN [notifications[i] EXCEPT !.read = TRUE]
                ELSE notifications[i]
       /\ GetUnreadCount(notifications', resp'.req.user) = 0
       /\ (\A i \in 1..Len(notifications) :
             notifications[i].recipient = resp'.req.user => notifications[i].read)
            => notifications' = notifications
       /\ MarkAllAsRead(notifications', resp'.req.user) = notifications'
       /\ GetUnreadCount(MarkAllAsRead(notifications', resp'.req.user), resp'.req.user) = 0]_vars

\* markAllAsRead was called for a user whose notifications were all read
\* already, while another recipient's notification stays unread.
C9_Witness ==
  /\ resp.op = "markAllAsRead" /\ resp.req.unreadBefore = 0
  /\ \E i \in 1..Len(notifications) :
       notifications[i].recipient = resp.req.user /\ notifications[i].read
  /\ \E i \in 1..Len(notifications) :
       notifications[i].recipient # resp.req.user /\ ~notifications[i].read

\* C10: the page returned for (user, page, limit) holds at most limit
\* notifications, all of user; its k-th entry is the stored notification of
\* user with exactly (page-1)*limit + k - 1 newer notifications of user; it
\* is as long as that range allows; totalPages is the least number of pages
\* of size limit that hold all of user's notifications.
C10_PageOfUserNotifications ==
  resp.op = "getUserNotifications" =>
    LET page == resp.req.page
        limit == resp.req.limit
        out == resp.body.notifications
        mine == {i \in 1..Len(notifications) : notifications[i].recipient = resp.req.user}
        total == Cardinality(mine)
        first == (page - 1) * limit
    IN /\ Len(out) <= limit
       /\ Len(out) = IF total - first <= 0 THEN 0
                     ELSE IF total - first < limit THEN total - first ELSE limit
       /\ \A k \in 1..Len(out) :
            /\ out[k].recipient = resp.req.user
            /\ \E i \in mine : notifications[i] = out[k]
            /\ Cardinality({i \in mine : notifications[i].createdAt > out[k].createdAt})
                 = first + k - 1
       /\ resp.body.totalPages * limit >= total
       /\ (resp.body.totalPages - 1) * limit < total
       /\ resp.body.totalPages >= 0

\* A second page that is not empty: the user holds more notifications than
\* one page of the requested size.
C10_Witness ==
  /\ resp.op = "getUserNotifications"
  /\ resp.req.page = 2
  /\ Len(resp.body.notifications) >= 1
\* C11: no step removes a stored notification or changes its recipient,
\* title, message, type or link; a notification is created unread; a read
\* notification is never unread again.
C11_NotificationsOnlyGetRead ==
  [][/\ Len(notifications') >= Len(notifications)
     /\ \A i \in 1..Len(notifications) :
          /\ notifications'[i]._id = notifications[i]._id
          /\ notifications'[i].recipient = notifications[i].recipient
          /\ notifications'[i].title = notifications[i].title
          /\ notifications'[i].message = notifications[i].message
          /\ notifications'[i].type = notifications[i].type
          /\ notifications'[i].link = notifications[i].link
          /\ notifications[i].read => notifications'[i].read
     /\ \A i \in 1..Len(Added) : Added[i].read = FALSE]_vars

\* markAsRead was answered 200 on a notification that was created before
\* another one, which is still unread.
C11_Witness ==
  /\ resp.op = "markAsRead" /\ resp.status = 200
  /\ \E i, j \in 1..Len(notifications) :
       /\ i < j
       /\ notifications[i]._id = resp.req.id
       /\ notifications[i].read
       /\ ~notifications[j].read

\* C12: a share request for a stored registration of a stored event, sent by
\* a user who is not the event's creator, is answered 403 and changes no
\* registration and no notification.
C12_ShareForbiddenForOthers ==
  [][/\ resp'.op = "share"
     /\ resp'.req.id \in DOMAIN registrations
     /\ registrations[resp'.req.id].event \in DOMAIN events
     /\ events[registrations[resp'.req.id].event].createdBy # resp'.req.requester
     => /\ resp'.status = 403
        /\ registrations' = registrations
        /\ notifications' = notifications]_vars

\* A share naming a user was refused with 403 and the user is not in the
\* registration's sharedWith.
C12_Witness ==
  /\ resp.op = "share" /\ resp.status = 403
  /\ resp.req.body.isArray /\ Len(resp.req.body.userIds) >= 1
  /\ resp.req.body.userIds[1] \notin Range(registrations[resp.req.id].sharedWith)

\* C13: a status update for a stored registration of a stored event, sent by
\* a user who is not the event's creator, is answered 403 and changes no
\* registration and no notification.
C13_UpdateStatusForbiddenForOthers ==
  [][/\ resp'.op = "updateStatus"
     /\ resp'.req.id \in DOMAIN registrations
     /\ registrations[resp'.req.id].event \in DOMAIN events
     /\ events[registrations[resp'.req.id].event].createdBy # resp'.req.requester
     => /\ resp'.status = 403
        /\ registrations' = registrations
        /\ notifications' = notifications]_vars

\* A status update to another status was refused with 403; the registration
\* holds its old status.
C13_Witness ==
  /\ resp.op = "updateStatus" /\ resp.status = 403
  /\ registrations[resp.req.id].status # resp.req.status

C15_ShareNotifiesEveryEntry ==
  [][/\ resp'.op = "share"
     /\ resp'.req.id \in DOMAIN registrations
     /\ registrations[resp'.req.id].event \in DOMAIN events
     /\ events[registrations[resp'.req.id].event].createdBy = resp'.req.requester
     => /\ resp'.req.body.isArray /\ resp'.req.saveOk /\ resp'.req.failAt = 0 =>
             /\ KeepsStored
             /\ Len(Added) = Len(resp'.req.body.userIds)
             /\ \A i \in 1..Len(Added) :
                  /\ Added[i].recipient = resp'.req.body.userIds[i]
                  /\ Added[i].title = "Event Registration Shared"
        /\ ~resp'.req.body.isArray =>
             /\ registrations' = registrations
             /\ notifications' = notifications]_vars

\* A share of one user who was in sharedWith already: the user is stored
\* twice and was notified again.
C15_Witness ==
  /\ resp.op = "share" /\ resp.status = 200
  /\ resp.req.body.isArray /\ Len(resp.req.body.userIds) = 1
  /\ Cardinality({i \in 1..Len(registrations[resp.req.id].sharedWith) :
                    registrations[resp.req.id].sharedWith[i] = resp.req.body.userIds[1]}) >= 2
  /\ notifications[Len(notifications)].recipient = resp.req.body.userIds[1]
  /\ notifications[Len(notifications)].title = "Event Registration Shared"

\* C16: a register request whose name is missing, whose age is below 1 or
\* whose gender is not male, female or other is answered 400, also when its
\* event is not stored; a well-formed one for an event that is not stored is
\* answered 404; a request answered 400 or 404 changes no registration and no
\* notification.
C16_RegisterRefusalsLeaveNothing ==
  [][resp'.op = "register" =>
       LET body == resp'.req.body
           invalid == \/ body.name = ""
                      \/ body.age < 1
                      \/ body.gender \notin {"male", "female", "other"}
       IN /\ invalid => resp'.status = 400
          /\ ~invalid /\ body.event \notin DOMAIN events => resp'.status = 404
          /\ invalid \/ body.event \notin DOMAIN events =>
               /\ registrations' = registrations
               /\ notifications' = notifications]_vars

\* A request with age 0 for an event that is not stored was answered 400.
C16_Witness ==
  /\ resp.op = "register" /\ resp.status = 400
  /\ resp.req.body.age < 1 /\ resp.req.body.name # "" /\ resp.req.body.gender = "male"
  /\ resp.req.body.event \notin DOMAIN events

\* C17: a share or status update whose registration is not stored, or whose
\* registration's event is not stored, is answered 404 and changes no
\* registration and no notification; deleting an event changes no
\* registration.
C17_NotFoundAfterEventDelete ==
  [][/\ /\ resp'.op \in {"share", "updateStatus"}
        /\ \/ resp'.req.id \notin DOMAIN registrations
           \/ registrations[resp'.req.id].event \notin DOMAIN events
        => /\ resp'.status = 404
           /\ registrations' = registrations
           /\ notifications' = notifications
     /\ resp'.op = "deleteEvent" => registrations' = registrations]_vars

\* A share or status update on a stored registration was answered 404: its
\* event was deleted.
C17_Witness ==
  /\ resp.op \in {"share", "updateStatus"} /\ resp.status = 404
  /\ resp.req.id \in DOMAIN registrations
  /\ registrations[resp.req.id].event \notin DOMAIN events
  /\ eventCount >= 1

\* C18: an update or delete of a stored event by a user who is neither its
\* createdBy nor an admin is answered 403 and changes neither the events nor
\* the object storage.
C18_OnlyCreatorOrAdminMutates ==
  [][/\ resp'.op \in {"updateEvent", "deleteEvent"}
     /\ resp'.req.id \in DOMAIN events
     /\ events[resp'.req.id].createdBy # resp'.req.by
     /\ users[resp'.req.by].role # "admin"
     => /\ resp'.status = 403
        /\ events' = events
        /\ cloudinary' = cloudinary]_vars

\* An update that carried a file was refused with 403 for an event that holds
\* an attachment, which the storage still holds.
C18_Witness ==
  /\ resp.op = "updateEvent" /\ resp.status = 403
  /\ resp.req.files.images + resp.req.files.reports >= 1
  /\ \E a \in cloudinary.assets :
       a \in Range(events[resp.req.id].images) \cup Range(events[resp.req.id].reports)

\* C19: when a destroy call of an event delete or update fails, the request
\* is answered 200 and the event is deleted, respectively updated.
C19_ReleaseFailureDoesNotBlock ==
  [][/\ resp'.op = "deleteEvent" /\ resp'.req.destroyFails # {} =>
          /\ resp'.status = 200
          /\ resp'.req.id \notin DOMAIN events'
     /\ resp'.op = "updateEvent" /\ resp'.req.destroyFails # {} =>
          /\ resp'.status = 200
          /\ events'[resp'.req.id].title = resp'.req.body.title]_vars

\* C20: no request to DELETE /users/:id or DELETE /users/officials/:id
\* removes the account of the admin who sent it: when the path names the
\* requester's own id the request is refused and the requester stays stored.
C20_NoSelfDeletion ==
  [][resp'.op \in {"deleteUser", "deleteOfficial"} =>
       /\ resp'.req.by \in DOMAIN users'
       /\ ObjectIdOf(resp'.req.id) = resp'.req.by =>
            resp'.status \in {403, 404} /\ users' = users]_vars
\* C21: every step of the users routes leaves every block_officer with a
\* non-empty district and every Official_member with a non-empty
\* officialRole; a role change answered 200 to a role other than
\* block_officer leaves the user without district, and to a role other than
\* Official_member without officialRole.
C21_RoleFieldsConsistent ==
  [][/\ \A u \in DOMAIN users' :
          /\ users'[u].role = "block_officer" => users'[u].district \notin {Undefined, ""}
          /\ users'[u].role = "Official_member" => users'[u].officialRole \notin {Undefined, ""}
     /\ resp'.op = "updateRole" /\ resp'.status = 200 =>
          /\ resp'.req.role # "block_officer" => users'[resp'.body].district = Undefined
          /\ resp'.req.role # "Official_member" => users'[resp'.body].officialRole = Undefined]_vars

\* A role change to public that carried a district was answered 200 for a
\* user stored as block officer: the user holds no district.
C21_Witness ==
  /\ resp.op = "updateRole" /\ resp.status = 200
  /\ resp.req.role = "public" /\ resp.req.district = "Sangli"
  /\ resp.body \in DOMAIN users
  /\ users[resp.body].role = "public"
  /\ users[resp.body].district = Undefined
\* C22: an initiative create answered 201 and an initiative update answered
\* 200 leave the initiative with updatedAt equal to the time of the request.
C22_UpdatedAtRefreshed ==
  [][/\ resp'.op = "createInitiative" /\ resp'.status = 201 =>
          initiatives'[resp'.body].updatedAt = clock
     /\ resp'.op = "updateInitiative" /\ resp'.status = 200 =>
          initiatives'[resp'.body].updatedAt = clock]_vars

C24_RegisteredPending ==
  [][/\ \A r \in DOMAIN registrations' \ DOMAIN registrations :
          /\ resp'.op = "register"
          /\ registrations'[r].status = "pending"
     /\ \A r \in DOMAIN registrations \cap DOMAIN registrations' :
          registrations'[r].status # registrations[r].status
            => resp'.op = "updateStatus" /\ resp'.req.id = r]_vars

\* A registration was stored from a request whose body asked for approved.
C24_Witness ==
  /\ resp.op = "register" /\ resp.status = 200
  /\ resp.req.body.status = "approved"
  /\ resp.body \in DOMAIN registrations
  /\ registrations[resp.body].status = "pending"

\* C25: an initiative create, update or delete sent by a stored user is
\* answered 403 exactly when the user's role is neither admin nor
\* Official_member, and a request answered 403 changes nothing; so no step
\* of a public user or block officer changes the initiatives.
C25_IsAdminGuards ==
  [][resp'.op \in {"createInitiative", "updateInitiative", "deleteInitiative"} =>
       LET allowed == users[resp'.req.by].role \in {"admin", "Official_member"} IN
       /\ resp'.status = 403 <=> ~allowed
       /\ ~allowed =>
            /\ initiatives' = initiatives
            /\ initiativeCount' = initiativeCount
            /\ UNCHANGED <<users, userCount, events, eventCount, cloudinary, registrations,
                           notifications, clock, io, connectedUsers, inflight>>]_vars

\* A block officer's delete of a stored initiative was answered 403 and the
\* initiative is still stored.
C25_Witness ==
  /\ resp.op = "deleteInitiative" /\ resp.status = 403
  /\ users[resp.req.by].role = "block_officer"
  /\ resp.req.id \in DOMAIN initiatives

\* C26: every entry of connectedUsers holds the id of a socket that is
\* connected, and no user id has two entries.
C26_ConnectedUsersLive ==
  /\ \A i \in 1..Len(connectedUsers) : connectedUsers[i].socketId \in io.connected
  /\ \A i, j \in 1..Len(connectedUsers) :
       i # j => connectedUsers[i].userId # connectedUsers[j].userId

\* C27: once the share requests on a registration have all been handled,
\* whether one after the other or interleaved, the registration's sharedWith
\* holds every id of every one of them.
C27_ConcurrentSharesKeepAll ==
  (\A slot \in DOMAIN inflight : inflight[slot].phase = "done")
    => \A slot \in DOMAIN inflight :
         Range(inflight[slot].body.userIds)
           \subseteq Range(registrations[inflight[slot].id].sharedWith)

\* C28: a registration is stored with an empty sharedWith, and the sharedWith
\* of a stored registration changes in no step but a share request made by
\* the creator of the registration's event.
C28_SharedWithOnlyByShare ==
  [][/\ \A r \in DOMAIN registrations' \ DOMAIN registrations :
          registrations'[r].sharedWith = <<>>
     /\ \A r \in DOMAIN registrations \cap DOMAIN registrations' :
          registrations'[r].sharedWith # registrations[r].sharedWith
            => /\ resp'.op = "share" /\ resp'.req.id = r
               /\ registrations[r].event \in DOMAIN events
               /\ events[registrations[r].event].createdBy = resp'.req.requester]_vars

\* C29: every image and report a stored event references is held by the
\* object storage.
C29_ReferencedAttachmentsStored ==
  \A e \in DOMAIN events :
    Range(events[e].images) \cup Range(events[e].reports) \subseteq cloudinary.assets

====
